---------------------------- MODULE Spec2Model ----------------------------
(***************************************************************************)
(* Chat orchestration of BackendHealth: ChatService (chatService.js) over  *)
(* the Persistent Store (mongoose models Conversation, Message), the Cache *)
(* (CacheService over redis) and Object Storage (StorageService).          *)
(*                                                                         *)
(* Every `await` of the services is an interleaving point.  One step of a  *)
(* worker is: the awaited Store/Cache/Object-Storage command takes effect, *)
(* and the synchronous code that follows it runs up to the next await.     *)
(* A command that rejects (throws) is a step of its own: CacheFails,       *)
(* StoreFails, UploadFails.  A key with a TTL may expire at any moment.    *)
(***************************************************************************)
EXTENDS Integers, Sequences, FiniteSets, TLC

\* ---------------------------------------------------------------- bounds
NumWorkers == 2
MaxConvs == 1
MaxMsgs == 2
MaxFiles == 1
MaxTime == 1
NumUsers == 2
\* the appends of the window specification: past the window's length
MaxMsgsWindow == 52
\* backup snapshots kept in Object Storage
MaxBackups == 1

\* ------------------------------------------------------ program constants
\* redis.ltrim(key, 0, 49): the recency window keeps entries 0..49
TrimStop == 49
\* getMessages serves from the cache when page === 1 && limit <= 10
CacheLimit == 10
\* backupConversation: getMessages(sessionId, 1, 1000)
BackupLimit == 1000

Workers == 1..NumWorkers
Users == 1..NumUsers
\* A sessionId is a uuid; Bogus is a string no createConversation generated.
Bogus == 0
SessionIds == 0..MaxConvs
\* (page, limit) pairs callers ask for
PageLimits == {<<1, 1>>, <<1, 5>>, <<1, 10>>, <<1, 50>>, <<2, 1>>}

VARIABLES
  conversations,  \* Store: Conversation collection, _id = index
  messages,       \* Store: Message collection, in insertion order
  convCache,      \* redis key conversation:<sessionId>
  msgCache,       \* redis list messages:<sessionId>, index 1 = head
  msgTTL,         \* whether messages:<sessionId> carries a TTL
  sessCache,      \* redis key session:<sessionId>
  objects,        \* Object Storage: uploaded file keys
  backups,        \* Object Storage: backup snapshots
  now,            \* wall clock (new Date())
  nextId,         \* uuidv4() values handed out for messageIds
  proc,           \* per worker: the call in progress and its locals
  addReturned     \* per conversation _id: addMessage calls that returned a Message

vars == <<conversations, messages, convCache, msgCache, msgTTL, sessCache,
          objects, backups, now, nextId, proc, addReturned>>
store == <<conversations, messages>>
cache == <<convCache, msgCache, msgTTL, sessCache>>

\* ---------------------------------------------------------------- helpers
Min(a, b) == IF a < b THEN a ELSE b

RECURSIVE Reverse(_)
Reverse(s) == IF s = <<>> THEN <<>> ELSE Append(Reverse(Tail(s)), Head(s))

\* A worker's locals.  An optional value (null or an object) is a sequence of
\* length 0 or 1.
Idle ==
  [pc |-> "idle", op |-> "", sid |-> 0, uid |-> 0, page |-> 0, limit |-> 0,
   files |-> 0, inner |-> FALSE, conv |-> <<>>, md |-> <<>>, cat |-> 0,
   la |-> 0, status |-> "", val |-> <<>>]

\* the call ended (returned or threw): the worker holds the outcome until the
\* response is sent
Finish(p, st, v) ==
  [Idle EXCEPT !.pc = "done", !.op = p.op, !.sid = p.sid, !.uid = p.uid,
               !.page = p.page, !.limit = p.limit, !.md = p.md,
               !.status = st, !.val = v]

\* ------------------------------------------------------------------ Store
NewConversation(sessionId, userId, t) ==
  [sessionId |-> sessionId, userId |-> userId, isActive |-> TRUE,
   lastActivity |-> t, messageCount |-> 0]

\* Conversation.findOne({ sessionId, isActive: true }): the _ids that match
FindOneActive(sessionId) ==
  {i \in DOMAIN conversations :
     conversations[i].sessionId = sessionId /\ conversations[i].isActive}

\* the query without its userId filter
FindOneAnyOwner(sessionId, userId) ==
  {i \in DOMAIN conversations : conversations[i].sessionId = sessionId}

\* Conversation.findOne({ sessionId, userId })
FindOneOwned(sessionId, userId) ==
  {i \in DOMAIN conversations :
     conversations[i].sessionId = sessionId /\ conversations[i].userId = userId}

\* the projection getConversation builds from the Store document
Projection(i) ==
  [id |-> i, sessionId |-> conversations[i].sessionId,
   userId |-> conversations[i].userId]

\* the update without its $inc
UpdateActivityNoInc(convs, id, t) == [convs EXCEPT ![id].lastActivity = t]

\* Conversation.findByIdAndUpdate(id, { lastActivity, $inc: { messageCount: 1 } })
UpdateActivity(convs, id, t) ==
  [convs EXCEPT ![id].lastActivity = t, ![id].messageCount = @ + 1]

\* Conversation.findByIdAndUpdate(id, { isActive: false })
MarkInactive(convs, id) == [convs EXCEPT ![id].isActive = FALSE]

\* ------------------------------------------------------------------ Cache
\* JSON.stringify then JSON.parse of a messageData: a Date comes back as its
\* ISO string (ids come back as strings, which mongoose casts again)
JSONRoundTrip(m) == [m EXCEPT !.timestamp = <<"iso", @>>]

\* redis.lpush(key, value)
Lpush(list, v) == <<v>> \o list

\* redis.lrange / redis.ltrim for 0 <= start <= stop
Lrange(list, start, stop) == SubSeq(list, start + 1, Min(stop + 1, Len(list)))

\* cacheService.getRecentMessages(sessionId, count)
GetRecentMessages(sessionId, count) ==
  [i \in DOMAIN Lrange(msgCache[sessionId], 0, count - 1) |->
     JSONRoundTrip(Lrange(msgCache[sessionId], 0, count - 1)[i])]

\* cacheService.deleteSession(sessionId): redis.del(`session:${sessionId}`)
DeleteSession(sessionId) ==
  /\ sessCache' = [sessCache EXCEPT ![sessionId] = FALSE]
  /\ UNCHANGED <<convCache, msgCache, msgTTL>>

\* ------------------------------------------------------------------- Init
Init ==
  /\ conversations = <<>>
  /\ messages = <<>>
  /\ convCache = [s \in SessionIds |-> <<>>]
  /\ msgCache = [s \in SessionIds |-> <<>>]
  /\ msgTTL = [s \in SessionIds |-> FALSE]
  /\ sessCache = [s \in SessionIds |-> FALSE]
  /\ objects = {}
  /\ backups = {}
  /\ now = 0
  /\ nextId = 0
  /\ proc = [w \in Workers |-> Idle]
  /\ addReturned = [i \in 1..MaxConvs |-> 0]

\* --------------------------------------------------- createConversation
\* conversations already stored or about to be
ConvsClaimed ==
  Len(conversations)
    + Cardinality({w \in Workers : proc[w].pc = "cc_save"})

\* lines 8-20: build the document (lastActivity: new Date()), call save()
StartCreate(w, u) ==
  /\ proc[w].pc = "idle"
  /\ ConvsClaimed < MaxConvs
  /\ proc' = [proc EXCEPT ![w] =
       [Idle EXCEPT !.pc = "cc_save", !.op = "createConversation",
                    !.uid = u, !.la = now]]
  /\ UNCHANGED <<store, cache, objects, backups, now, nextId, addReturned>>

\* line 20 takes effect (sessionId = uuidv4() is fresh: here the new _id);
\* lines 22-29: call cacheConversation
CreateSave(w) ==
  /\ proc[w].pc = "cc_save"
  /\ LET id == Len(conversations) + 1 IN
       /\ conversations' =
            Append(conversations, NewConversation(id, proc[w].uid, proc[w].la))
       /\ proc' = [proc EXCEPT ![w].pc = "cc_cache", ![w].sid = id,
                                ![w].conv =
                                  <<[id |-> id, sessionId |-> id,
                                     userId |-> proc[w].uid]>>]
  /\ UNCHANGED <<messages, cache, objects, backups, now, nextId, addReturned>>

\* cacheService.cacheConversation takes effect (setex, TTL 3600); line 31
CreateCache(w) ==
  /\ proc[w].pc = "cc_cache"
  /\ convCache' = [convCache EXCEPT ![proc[w].sid] = proc[w].conv]
  /\ proc' = [proc EXCEPT ![w] = Finish(proc[w], "ok", proc[w].conv)]
  /\ UNCHANGED <<store, msgCache, msgTTL, sessCache, objects, backups, now,
                 nextId, addReturned>>

\* ------------------------------------------------------- getConversation
\* messageIds handed out or about to be
IdsClaimed ==
  nextId + Cardinality({w \in Workers :
                          /\ proc[w].op = "addMessage"
                          /\ proc[w].pc \in {"gc_cache", "gc_db", "gc_set"}})

\* lines 63-74 (and 102-104 when there is no file): the messageData
MessageData(p, c, id, t) ==
  [conversationId |-> c.id, sessionId |-> p.sid, messageId |-> id,
   timestamp |-> t, files |-> 0]

\* getConversation returned c (<<>> is null) to the caller p; t = new Date()
AfterGetConversation(p, c, id, t) ==
  CASE p.op = "getConversation" -> Finish(p, "ok", c)
    [] c = <<>> -> Finish(p, "NotFound", <<>>)
    [] p.op = "addMessage" ->
         [p EXCEPT !.conv = c, !.md = <<MessageData(p, c[1], id, t)>>,
                   !.cat = IF p.files > 0 THEN 0 ELSE t,
                   !.pc = IF p.files > 0 THEN "am_upload" ELSE "am_save"]
    [] p.op = "backupConversation" /\ ~p.inner ->
         \* line 180: getMessages(sessionId, 1, 1000) skips the cache (limit > 10)
         [p EXCEPT !.conv = c, !.inner = TRUE, !.page = 1,
                   !.limit = BackupLimit, !.pc = "gc_cache"]
    [] OTHER -> [p EXCEPT !.conv = c, !.pc = "gm_find"]

\* the caller of getConversation resumes
Resume(w, c) ==
  IF proc[w].op = "addMessage" /\ c # <<>>
  THEN /\ nextId' = nextId + 1
       /\ proc' = [proc EXCEPT ![w] =
                     AfterGetConversation(proc[w], c, nextId + 1, now)]
  ELSE /\ nextId' = nextId
       /\ proc' = [proc EXCEPT ![w] = AfterGetConversation(proc[w], c, 0, 0)]

StartGetConversation(w, s) ==
  /\ proc[w].pc = "idle"
  /\ proc' = [proc EXCEPT ![w] =
       [Idle EXCEPT !.pc = "gc_cache", !.op = "getConversation", !.sid = s]]
  /\ UNCHANGED <<store, cache, objects, backups, now, nextId, addReturned>>

\* line 36: getCachedConversation; a hit returns it (lines 38, 54)
GcCache(w) ==
  /\ proc[w].pc = "gc_cache"
  /\ IF convCache[proc[w].sid] # <<>>
     THEN Resume(w, convCache[proc[w].sid])
     ELSE /\ proc' = [proc EXCEPT ![w].pc = "gc_db"]
          /\ nextId' = nextId
  /\ UNCHANGED <<store, cache, objects, backups, now, addReturned>>

\* line 40: Conversation.findOne({ sessionId, isActive: true }); lines 41-50
GcDb(w) ==
  /\ proc[w].pc = "gc_db"
  /\ IF FindOneActive(proc[w].sid) = {}
     THEN Resume(w, <<>>)
     ELSE /\ \E i \in FindOneActive(proc[w].sid) :
               proc' = [proc EXCEPT ![w].pc = "gc_set",
                                    ![w].conv = <<Projection(i)>>]
          /\ nextId' = nextId
  /\ UNCHANGED <<store, cache, objects, backups, now, addReturned>>

\* line 50: cacheConversation takes effect; line 54
GcSet(w) ==
  /\ proc[w].pc = "gc_set"
  /\ convCache' = [convCache EXCEPT ![proc[w].sid] = proc[w].conv]
  /\ Resume(w, proc[w].conv)
  /\ UNCHANGED <<store, msgCache, msgTTL, sessCache, objects, backups, now,
                 addReturned>>

\* ------------------------------------------------------------ addMessage
StartAddMessage(w, s, nf, cap) ==
  /\ proc[w].pc = "idle"
  /\ IdsClaimed < cap
  /\ proc' = [proc EXCEPT ![w] =
       [Idle EXCEPT !.pc = "gc_cache", !.op = "addMessage", !.sid = s,
                    !.files = nf]]
  /\ UNCHANGED <<store, cache, objects, backups, now, nextId, addReturned>>

\* line 79: storageService.uploadFile puts one object; lines 81-98; after the
\* last file, lines 102-104 build the Message and call save()
AmUpload(w) ==
  /\ proc[w].pc = "am_upload"
  /\ LET p == proc[w]
         m == p.md[1]
         n == m.files + 1
     IN /\ objects' = objects \cup {<<m.messageId, n>>}
        /\ proc' = [proc EXCEPT ![w] =
             IF n < p.files
             THEN [p EXCEPT !.md = <<[m EXCEPT !.files = n]>>]
             ELSE [p EXCEPT !.md = <<[m EXCEPT !.files = n]>>, !.cat = now,
                            !.pc = "am_save"]]
  /\ UNCHANGED <<store, cache, backups, now, nextId, addReturned>>

\* the Message document save() writes: messageData and the createdAt that
\* mongoose's timestamps set when save() was called
Saved(p) ==
  [conversationId |-> p.md[1].conversationId, sessionId |-> p.md[1].sessionId,
   messageId |-> p.md[1].messageId, timestamp |-> p.md[1].timestamp,
   files |-> p.md[1].files, createdAt |-> p.cat]

\* line 104: message.save() takes effect; line 107 calls cacheService.addMessage
AmSave(w) ==
  /\ proc[w].pc = "am_save"
  /\ messages' = Append(messages, Saved(proc[w]))
  /\ proc' = [proc EXCEPT ![w].pc = "am_lpush"]
  /\ UNCHANGED <<conversations, cache, objects, backups, now, nextId,
                 addReturned>>

\* cacheService.addMessage: redis.lpush(key, JSON.stringify(message))
AmLpush(w) ==
  /\ proc[w].pc = "am_lpush"
  /\ msgCache' = [msgCache EXCEPT ![proc[w].sid] = Lpush(@, proc[w].md[1])]
  /\ proc' = [proc EXCEPT ![w].pc = "am_expire"]
  /\ UNCHANGED <<store, convCache, msgTTL, sessCache, objects, backups, now,
                 nextId, addReturned>>

\* cacheService.addMessage: redis.expire(key, 3600), a no-op on a missing key
AmExpire(w) ==
  /\ proc[w].pc = "am_expire"
  /\ msgTTL' = [msgTTL EXCEPT ![proc[w].sid] = msgCache[proc[w].sid] # <<>>]
  /\ proc' = [proc EXCEPT ![w].pc = "am_ltrim"]
  /\ UNCHANGED <<store, convCache, msgCache, sessCache, objects, backups, now,
                 nextId, addReturned>>

\* cacheService.addMessage: redis.ltrim(key, 0, 49); then lines 109-113 call
\* findByIdAndUpdate with lastActivity: new Date()
AmLtrim(w) ==
  /\ proc[w].pc = "am_ltrim"
  /\ msgCache' = [msgCache EXCEPT ![proc[w].sid] = Lrange(@, 0, TrimStop)]
  /\ proc' = [proc EXCEPT ![w].pc = "am_inc", ![w].la = now]
  /\ UNCHANGED <<store, convCache, msgTTL, sessCache, objects, backups, now,
                 nextId, addReturned>>

\* lines 110-113: the update takes effect; line 115 returns the Message
AmInc(w) ==
  /\ proc[w].pc = "am_inc"
  /\ LET id == proc[w].conv[1].id IN
       /\ conversations' = UpdateActivity(conversations, id, proc[w].la)
       /\ addReturned' = [addReturned EXCEPT ![id] = @ + 1]
  /\ proc' = [proc EXCEPT ![w] = Finish(proc[w], "ok", <<Saved(proc[w])>>)]
  /\ UNCHANGED <<messages, cache, objects, backups, now, nextId>>

\* ----------------------------------------------------------- getMessages
\* Message.find({ conversationId }): the documents' positions
FindMessages(conversationId) ==
  {i \in DOMAIN messages : messages[i].conversationId = conversationId}

\* .sort({ createdAt: -1 }): every order of the documents at positions S that
\* is descending by createdAt (the order among equal createdAt is unspecified)
RECURSIVE SortedDesc(_)
SortedDesc(S) ==
  IF S = {} THEN {<<>>}
  ELSE LET top == {i \in S : \A j \in S :
                                messages[i].createdAt >= messages[j].createdAt}
       IN UNION {{<<messages[i]>> \o r : r \in SortedDesc(S \ {i})} : i \in top}

\* .skip(skip).limit(limit)
SkipLimit(seq, skip, limit) ==
  SubSeq(seq, skip + 1, Min(skip + limit, Len(seq)))

\* lines 133-140 for one order the sort may produce
StorePage(sorted, page, limit) ==
  Reverse(SkipLimit(sorted, (page - 1) * limit, limit))

\* line 120
CachePath(page, limit) == page = 1 /\ limit <= CacheLimit

StartGetMessages(w, s, pl) ==
  /\ proc[w].pc = "idle"
  /\ proc' = [proc EXCEPT ![w] =
       [Idle EXCEPT !.pc = IF CachePath(pl[1], pl[2]) THEN "gm_cache"
                           ELSE "gc_cache",
                    !.op = "getMessages", !.sid = s, !.page = pl[1],
                    !.limit = pl[2]]]
  /\ UNCHANGED <<store, cache, objects, backups, now, nextId, addReturned>>

\* lines 121-125: getRecentMessages; a non-empty answer is returned
GmCache(w) ==
  /\ proc[w].pc = "gm_cache"
  /\ LET cachedMessages == GetRecentMessages(proc[w].sid, proc[w].limit) IN
       proc' = [proc EXCEPT ![w] =
                 IF Len(cachedMessages) > 0
                 THEN Finish(proc[w], "ok", cachedMessages)
                 ELSE [proc[w] EXCEPT !.pc = "gc_cache"]]
  /\ UNCHANGED <<store, cache, objects, backups, now, nextId, addReturned>>

\* lines 134-140: the query takes effect; backupConversation goes on to
\* lines 182-188 and calls storageService.backupConversation
GmFind(w) ==
  /\ proc[w].pc = "gm_find"
  /\ \E sorted \in SortedDesc(FindMessages(proc[w].conv[1].id)) :
       LET result == StorePage(sorted, proc[w].page, proc[w].limit) IN
         proc' = [proc EXCEPT ![w] =
                   IF proc[w].op = "backupConversation"
                   THEN [proc[w] EXCEPT !.pc = "bk_put", !.val = result]
                   ELSE Finish(proc[w], "ok", result)]
  /\ UNCHANGED <<store, cache, objects, backups, now, nextId, addReturned>>

\* getConversation run with nothing in between (lines 34-55): <<>> is null
GetConversation(sessionId) ==
  IF convCache[sessionId] # <<>> THEN convCache[sessionId]
  ELSE IF FindOneActive(sessionId) = {} THEN <<>>
  ELSE <<Projection(CHOOSE i \in FindOneActive(sessionId) : TRUE)>>

\* getMessages run with nothing in between (lines 118-141): every sequence it
\* may return; none when it throws 'Conversation not found'
GetMessages(sessionId, page, limit) ==
  IF CachePath(page, limit) /\ Len(GetRecentMessages(sessionId, limit)) > 0
  THEN {GetRecentMessages(sessionId, limit)}
  ELSE IF GetConversation(sessionId) = <<>> THEN {}
  ELSE {StorePage(sorted, page, limit) :
          sorted \in SortedDesc(FindMessages(GetConversation(sessionId)[1].id))}

\* -------------------------------------------------- getUserConversations
\* Conversation.find({ userId, isActive: true })
FindUserConversations(userId) ==
  {i \in DOMAIN conversations :
     conversations[i].userId = userId /\ conversations[i].isActive}

\* .sort({ lastActivity: -1 }), then the .select(...) projection
RECURSIVE SortedByActivity(_)
SortedByActivity(S) ==
  IF S = {} THEN {<<>>}
  ELSE LET top == {i \in S : \A j \in S :
                     conversations[i].lastActivity >= conversations[j].lastActivity}
       IN UNION {{<<[sessionId |-> conversations[i].sessionId,
                     lastActivity |-> conversations[i].lastActivity,
                     messageCount |-> conversations[i].messageCount]>> \o r :
                    r \in SortedByActivity(S \ {i})} : i \in top}

StartGetUserConversations(w, u, pl) ==
  /\ proc[w].pc = "idle"
  /\ proc' = [proc EXCEPT ![w] =
       [Idle EXCEPT !.pc = "guc_find", !.op = "getUserConversations",
                    !.uid = u, !.page = pl[1], !.limit = pl[2]]]
  /\ UNCHANGED <<store, cache, objects, backups, now, nextId, addReturned>>

\* lines 144-156
GucFind(w) ==
  /\ proc[w].pc = "guc_find"
  /\ \E sorted \in SortedByActivity(FindUserConversations(proc[w].uid)) :
       proc' = [proc EXCEPT ![w] =
         Finish(proc[w], "ok",
                SkipLimit(sorted, (proc[w].page - 1) * proc[w].limit,
                          proc[w].limit))]
  /\ UNCHANGED <<store, cache, objects, backups, now, nextId, addReturned>>

\* ---------------------------------------------------- deleteConversation
StartDelete(w, s, u) ==
  /\ proc[w].pc = "idle"
  /\ proc' = [proc EXCEPT ![w] =
       [Idle EXCEPT !.pc = "dc_find", !.op = "deleteConversation",
                    !.sid = s, !.uid = u]]
  /\ UNCHANGED <<store, cache, objects, backups, now, nextId, addReturned>>

\* lines 160-163: findOne({ sessionId, userId }); none: 'Conversation not found'
DcFind(w) ==
  /\ proc[w].pc = "dc_find"
  /\ IF FindOneOwned(proc[w].sid, proc[w].uid) = {}
     THEN proc' = [proc EXCEPT ![w] = Finish(proc[w], "NotFound", <<>>)]
     ELSE \E i \in FindOneOwned(proc[w].sid, proc[w].uid) :
            proc' = [proc EXCEPT ![w].pc = "dc_update",
                                 ![w].conv = <<Projection(i)>>]
  /\ UNCHANGED <<store, cache, objects, backups, now, nextId, addReturned>>

\* the update as a cascading delete: the conversation's Messages go with it
DcUpdateCascade(w) ==
  /\ proc[w].pc = "dc_update"
  /\ conversations' = MarkInactive(conversations, proc[w].conv[1].id)
  /\ messages' = SelectSeq(messages,
                    LAMBDA m : m.conversationId # proc[w].conv[1].id)
  /\ proc' = [proc EXCEPT ![w].pc = "dc_cache"]
  /\ UNCHANGED <<cache, objects, backups, now, nextId, addReturned>>

\* line 166: findByIdAndUpdate(conversation._id, { isActive: false })
DcUpdate(w) ==
  /\ proc[w].pc = "dc_update"
  /\ conversations' = MarkInactive(conversations, proc[w].conv[1].id)
  /\ proc' = [proc EXCEPT ![w].pc = "dc_cache"]
  /\ UNCHANGED <<messages, cache, objects, backups, now, nextId, addReturned>>

\* line 169: cacheService.deleteSession(sessionId); line 171
DcCache(w) ==
  /\ proc[w].pc = "dc_cache"
  /\ DeleteSession(proc[w].sid)
  /\ proc' = [proc EXCEPT ![w] = Finish(proc[w], "ok", <<>>)]
  /\ UNCHANGED <<store, objects, backups, now, nextId, addReturned>>

\* ---------------------------------------------------- backupConversation
StartBackup(w, s) ==
  /\ proc[w].pc = "idle"
  /\ proc' = [proc EXCEPT ![w] =
       [Idle EXCEPT !.pc = "gc_cache", !.op = "backupConversation", !.sid = s]]
  /\ UNCHANGED <<store, cache, objects, backups, now, nextId, addReturned>>

\* line 188: storageService.backupConversation puts the snapshot; line 189
BkPut(w) ==
  /\ proc[w].pc = "bk_put"
  /\ LET snapshot == [conversation |-> proc[w].conv[1],
                      messages |-> proc[w].val]
     IN /\ backups' = backups \cup {snapshot}
        /\ proc' = [proc EXCEPT ![w] = Finish(proc[w], "ok", <<snapshot>>)]
  /\ UNCHANGED <<store, cache, objects, now, nextId, addReturned>>

\* ------------------------------------------------------------ environment
\* the response is sent; the worker takes the next request
Respond(w) ==
  /\ proc[w].pc = "done"
  /\ proc' = [proc EXCEPT ![w] = Idle]
  /\ UNCHANGED <<store, cache, objects, backups, now, nextId, addReturned>>

CachePcs == {"cc_cache", "gc_cache", "gc_set", "am_lpush", "am_expire",
             "am_ltrim", "gm_cache", "dc_cache"}
StorePcs == {"cc_save", "gc_db", "am_save", "am_inc", "gm_find", "guc_find",
             "dc_find", "dc_update"}
ObjectPcs == {"am_upload", "bk_put"}

\* the awaited redis command rejects: no method catches, the call throws
CacheFails(w) ==
  /\ proc[w].pc \in CachePcs
  /\ proc' = [proc EXCEPT ![w] = Finish(proc[w], "CacheError", <<>>)]
  /\ UNCHANGED <<store, cache, objects, backups, now, nextId, addReturned>>

\* the awaited mongoose call rejects
StoreFails(w) ==
  /\ proc[w].pc \in StorePcs
  /\ proc' = [proc EXCEPT ![w] = Finish(proc[w], "StoreError", <<>>)]
  /\ UNCHANGED <<store, cache, objects, backups, now, nextId, addReturned>>

\* the rejection swallowed: addMessage goes on to save the Message
UploadFailsSwallowed(w) ==
  /\ proc[w].pc \in ObjectPcs
  /\ proc' = [proc EXCEPT ![w].pc = "am_save", ![w].cat = now]
  /\ UNCHANGED <<store, cache, objects, backups, now, nextId, addReturned>>

\* s3Client.send rejects (storageService.js lines 33-35, 72)
UploadFails(w) ==
  /\ proc[w].pc \in ObjectPcs
  /\ proc' = [proc EXCEPT ![w] = Finish(proc[w], "UploadError", <<>>)]
  /\ UNCHANGED <<store, cache, objects, backups, now, nextId, addReturned>>

\* the TTL of conversation:<s> (setex 3600) runs out
ExpireConversation(s) ==
  /\ convCache[s] # <<>>
  /\ convCache' = [convCache EXCEPT ![s] = <<>>]
  /\ UNCHANGED <<store, msgCache, msgTTL, sessCache, objects, backups, now,
                 nextId, proc, addReturned>>

\* the TTL of messages:<s> (expire 3600) runs out
ExpireMessages(s) ==
  /\ msgTTL[s]
  /\ msgCache' = [msgCache EXCEPT ![s] = <<>>]
  /\ msgTTL' = [msgTTL EXCEPT ![s] = FALSE]
  /\ UNCHANGED <<store, convCache, sessCache, objects, backups, now, nextId,
                 proc, addReturned>>

\* cacheService.setSession(sessionId, data): setex session:<s>
SetSession(s) ==
  /\ ~sessCache[s]
  /\ sessCache' = [sessCache EXCEPT ![s] = TRUE]
  /\ UNCHANGED <<store, convCache, msgCache, msgTTL, objects, backups, now,
                 nextId, proc, addReturned>>

\* the TTL of session:<s> runs out
ExpireSession(s) ==
  /\ sessCache[s]
  /\ sessCache' = [sessCache EXCEPT ![s] = FALSE]
  /\ UNCHANGED <<store, convCache, msgCache, msgTTL, objects, backups, now,
                 nextId, proc, addReturned>>

\* the wall clock advances
Tick ==
  /\ now < MaxTime
  /\ now' = now + 1
  /\ UNCHANGED <<store, cache, objects, backups, nextId, proc, addReturned>>

\* ---------------------------------------------------------- specification
\* Spec: requests served one at a time by worker 1: every operation on
\* conversations and messages, every expiry, the clock
Next ==
  \/ \E u \in Users : StartCreate(1, u)
  \/ \E s \in SessionIds : StartGetConversation(1, s)
  \/ \E s \in SessionIds : StartAddMessage(1, s, 0, MaxMsgs)
  \/ \E s \in SessionIds, pl \in PageLimits : StartGetMessages(1, s, pl)
  \/ \E u \in Users, pl \in PageLimits : StartGetUserConversations(1, u, pl)
  \/ \E s \in SessionIds, u \in Users : StartDelete(1, s, u)
  \/ CreateSave(1) \/ CreateCache(1)
  \/ GcCache(1) \/ GcDb(1) \/ GcSet(1)
  \/ AmSave(1) \/ AmLpush(1) \/ AmExpire(1) \/ AmLtrim(1) \/ AmInc(1)
  \/ GmCache(1) \/ GmFind(1) \/ GucFind(1)
  \/ DcFind(1) \/ DcUpdate(1) \/ DcCache(1)
  \/ Respond(1)
  \/ \E s \in SessionIds :
       \/ ExpireConversation(s) \/ ExpireMessages(s)
       \/ SetSession(s) \/ ExpireSession(s)
  \/ Tick

Spec == Init /\ [][Next]_vars

\* SpecFault: requests served one at a time; any Cache, Store or Object
\* Storage command may reject
NextFault ==
  \/ \E u \in Users : StartCreate(1, u)
  \/ \E s \in SessionIds : StartGetConversation(1, s)
  \/ \E s \in SessionIds, nf \in 0..MaxFiles : StartAddMessage(1, s, nf, MaxMsgs)
  \/ \E s \in SessionIds : StartBackup(1, s)
  \/ CreateSave(1) \/ CreateCache(1)
  \/ GcCache(1) \/ GcDb(1) \/ GcSet(1)
  \/ AmUpload(1) \/ AmSave(1) \/ AmLpush(1) \/ AmExpire(1) \/ AmLtrim(1)
  \/ AmInc(1)
  \/ GmFind(1) \/ BkPut(1)
  \/ Respond(1)
  \/ CacheFails(1) \/ StoreFails(1) \/ UploadFails(1)
  \/ \E s \in SessionIds : ExpireConversation(s) \/ ExpireMessages(s)

SpecFault == Init /\ [][NextFault]_vars

\* SpecDelete: requests served one at a time; conversations are created,
\* read, appended to and deleted by any user
NextDelete ==
  \/ \E u \in Users : StartCreate(1, u)
  \/ \E s \in SessionIds : StartGetConversation(1, s)
  \/ \E s \in SessionIds : StartAddMessage(1, s, 0, MaxMsgs)
  \/ \E s \in SessionIds, u \in Users : StartDelete(1, s, u)
  \/ CreateSave(1) \/ CreateCache(1)
  \/ GcCache(1) \/ GcDb(1) \/ GcSet(1)
  \/ AmSave(1) \/ AmLpush(1) \/ AmExpire(1) \/ AmLtrim(1) \/ AmInc(1)
  \/ DcFind(1) \/ DcUpdate(1) \/ DcCache(1)
  \/ Respond(1)
  \/ \E s \in SessionIds \ {Bogus} :
       \/ ExpireConversation(s) \/ ExpireMessages(s)
       \/ SetSession(s) \/ ExpireSession(s)

SpecDelete == Init /\ [][NextDelete]_vars

\* SpecConc: worker 1 creates conversations and every worker appends to
\* them, the calls interleaving at every await
NextConc ==
  \/ StartCreate(1, 1) \/ CreateSave(1) \/ CreateCache(1)
  \/ \E w \in Workers :
       \/ \E s \in SessionIds : StartAddMessage(w, s, 0, MaxMsgs)
       \/ GcCache(w) \/ GcDb(w) \/ GcSet(w)
       \/ AmSave(w) \/ AmLpush(w) \/ AmExpire(w) \/ AmLtrim(w) \/ AmInc(w)
       \/ Respond(w)
  \/ \E s \in SessionIds : ExpireConversation(s)

SpecConc == Init /\ [][NextConc]_vars

\* SpecWindow: one worker appends to one session past the window's length
NextWindow ==
  \/ \E u \in Users : StartCreate(1, u)
  \/ \E s \in SessionIds : StartAddMessage(1, s, 0, MaxMsgsWindow)
  \/ CreateSave(1) \/ CreateCache(1)
  \/ GcCache(1) \/ GcDb(1) \/ GcSet(1)
  \/ AmSave(1) \/ AmLpush(1) \/ AmExpire(1) \/ AmLtrim(1) \/ AmInc(1)
  \/ Respond(1)
  \/ \E s \in SessionIds : ExpireConversation(s)

SpecWindow == Init /\ [][NextWindow]_vars

\* SpecFrame: requests served one at a time: one user's conversations are
\* appended to, read, backed up and deleted while cache keys expire
NextFrame ==
  \/ StartCreate(1, 1)
  \/ \E s \in SessionIds \ {Bogus} :
       \/ StartAddMessage(1, s, 0, MaxMsgs)
       \/ StartGetMessages(1, s, <<1, CacheLimit>>)
       \/ StartDelete(1, s, 1)
       \/ Cardinality(backups) < MaxBackups /\ StartBackup(1, s)
       \/ ExpireConversation(s) \/ ExpireMessages(s)
  \/ CreateSave(1) \/ CreateCache(1)
  \/ GcCache(1) \/ GcDb(1) \/ GcSet(1)
  \/ AmSave(1) \/ AmLpush(1) \/ AmExpire(1) \/ AmLtrim(1) \/ AmInc(1)
  \/ GmCache(1) \/ GmFind(1) \/ BkPut(1)
  \/ DcFind(1) \/ DcUpdate(1) \/ DcCache(1)
  \/ Respond(1)

SpecFrame == Init /\ [][NextFrame]_vars

\* SpecUpload: requests served one at a time: messages with files are
\* appended while Object Storage and Store commands may reject
NextUpload ==
  \/ StartCreate(1, 1)
  \/ \E s \in SessionIds \ {Bogus}, nf \in 0..MaxFiles :
       StartAddMessage(1, s, nf, MaxMsgs)
  \/ CreateSave(1) \/ CreateCache(1)
  \/ GcCache(1) \/ GcDb(1) \/ GcSet(1)
  \/ AmUpload(1) \/ AmSave(1) \/ AmLpush(1) \/ AmExpire(1) \/ AmLtrim(1)
  \/ AmInc(1)
  \/ Respond(1)
  \/ StoreFails(1) \/ UploadFails(1)
  \/ \E s \in SessionIds \ {Bogus} : ExpireConversation(s)

SpecUpload == Init /\ [][NextUpload]_vars

\* SpecRace: the workers append concurrently while the clock advances
NextRace ==
  \/ StartCreate(1, 1) \/ CreateSave(1) \/ CreateCache(1)
  \/ \E w \in Workers :
       \/ \E s \in SessionIds \ {Bogus} : StartAddMessage(w, s, 0, MaxMsgs)
       \/ GcCache(w) \/ GcDb(w) \/ GcSet(w)
       \/ AmSave(w) \/ AmLpush(w) \/ AmExpire(w) \/ AmLtrim(w) \/ AmInc(w)
       \/ Respond(w)
  \/ \E s \in SessionIds \ {Bogus} : ExpireConversation(s)
  \/ Tick

SpecRace == Init /\ [][NextRace]_vars

\* ------------------------------------------------------------- properties
Returned(w, o) ==
  proc[w].pc = "done" /\ proc[w].op = o /\ proc[w].status = "ok"

Stored(messageId) == \E i \in DOMAIN messages : messages[i].messageId = messageId

\* the createdAt of the stored Message with this messageId
CreatedAtOf(messageId) ==
  messages[CHOOSE i \in DOMAIN messages : messages[i].messageId = messageId].createdAt

\* oldest first: createdAt never decreases along the sequence
Chronological(seq) ==
  \A i, j \in DOMAIN seq :
    i < j => CreatedAtOf(seq[i].messageId) <= CreatedAtOf(seq[j].messageId)

\* C1: whatever getMessages returns, from the cache recency window or from
\* the Store, is in ascending chronological order (oldest first).
C1_GetMessagesAscending ==
  \A w \in Workers : Returned(w, "getMessages") => Chronological(proc[w].val)

\* C2: right after addMessage(S, ...) returned its Message on an active
\* conversation (requests are served one at a time, so nothing ran since),
\* getMessages(S, 1, 5) returns a sequence whose last element is that Message.
C2_AppendedIsLastOfRecent ==
  \A w \in Workers :
    Returned(w, "addMessage") /\ FindOneActive(proc[w].sid) # {} =>
      /\ GetMessages(proc[w].sid, 1, 5) # {}
      /\ \A r \in GetMessages(proc[w].sid, 1, 5) :
           /\ r # <<>>
           /\ r[Len(r)].messageId = proc[w].val[1].messageId

\* C3: in every state, the intermediate states of addMessage included, the
\* recency window messages:<sessionId> holds at most 50 entries.
C3_WindowAtMost50 ==
  \A s \in SessionIds : Len(msgCache[s]) <= TrimStop + 1

\* a conversation with this sessionId is stored
Exists(sessionId) ==
  \E i \in DOMAIN conversations : conversations[i].sessionId = sessionId

\* a conversation with this sessionId is stored and is not active
Deleted(sessionId) ==
  \E i \in DOMAIN conversations :
    conversations[i].sessionId = sessionId /\ ~conversations[i].isActive

\* a conversation with this sessionId is stored and active
Active(sessionId) ==
  \E i \in DOMAIN conversations :
    conversations[i].sessionId = sessionId /\ conversations[i].isActive

\* a conversation with this sessionId is stored for another user
OwnedByOther(sessionId, userId) ==
  \E i \in DOMAIN conversations :
    conversations[i].sessionId = sessionId /\ conversations[i].userId # userId

\* C4: an addMessage call on a sessionId with no active conversation in the
\* Store (requests are served one at a time, and no conversation becomes
\* active again) never gets past resolving the conversation, so it writes
\* neither Store nor Cache, and it ends with NotFound.
C4_AddToInactiveIsNotFound ==
  \A w \in Workers :
    proc[w].op = "addMessage" /\ ~Active(proc[w].sid) =>
      \/ proc[w].pc \in {"gc_cache", "gc_db"}
      \/ proc[w].pc = "done" /\ proc[w].status = "NotFound"

\* C5: once deleteConversation(S, owner) returned, S is inactive in the Store,
\* every later getConversation(S) returns no conversation and every later
\* getUserConversations omits S.
C5_DeletedStaysHidden ==
  \A w \in Workers :
    /\ Returned(w, "deleteConversation") => Deleted(proc[w].sid)
    /\ Returned(w, "getConversation") /\ Deleted(proc[w].sid) =>
         proc[w].val = <<>>
    /\ Returned(w, "getUserConversations") =>
         \A k \in DOMAIN proc[w].val : ~Deleted(proc[w].val[k].sessionId)

DeleteCall(w) ==
  IF proc'[w].op = "deleteConversation" THEN proc'[w] ELSE proc[w]

C7_DeletePurgesCache ==
  [][\A w \in Workers :
       /\ proc[w].pc = "dc_cache"
       /\ proc'[w].pc = "done"
       /\ proc'[w].status = "ok"
       => /\ convCache'[proc'[w].sid] = <<>>
          /\ msgCache'[proc'[w].sid] = <<>>
          /\ ~sessCache'[proc'[w].sid]]_vars

\* C8: an addMessage call whose Message is in the Store is not ended by a
\* Cache failure: unless a Store command fails, it returns the Message (and
\* has then incremented messageCount and refreshed lastActivity).
C8_CacheFailureNotFatal ==
  \A w \in Workers :
    /\ proc[w].pc = "done"
    /\ proc[w].op = "addMessage"
    /\ proc[w].md # <<>>
    /\ Stored(proc[w].md[1].messageId)
    => proc[w].status \in {"ok", "StoreError"}

\* C9: a Cache error never ends getConversation: unless the Store query
\* fails, the call returns, and it returns the conversation when the Store
\* holds an active one for the sessionId.
C9_CacheErrorFallsThrough ==
  \A w \in Workers :
    proc[w].pc = "done" /\ proc[w].op = "getConversation" =>
      /\ proc[w].status \in {"ok", "StoreError"}
      /\ proc[w].status = "ok" /\ Active(proc[w].sid) => proc[w].val # <<>>

\* C10: under any interleaving of addMessage calls, a conversation's
\* messageCount is the number of addMessage calls on it that returned: K calls
\* that all return raise it by exactly K.
C10_NoLostIncrement ==
  \A i \in DOMAIN conversations :
    conversations[i].messageCount = addReturned[i]

\* C10 witness: two overlapping calls on one conversation returned (the one
\* that took its messageId first saved its Message second)
C10_Witness ==
  /\ \A w \in {1, 2} : Returned(w, "addMessage")
  /\ proc[1].val[1].conversationId = proc[2].val[1].conversationId
  /\ Len(messages) >= 2
  /\ messages[1].messageId > messages[2].messageId
  /\ conversations[proc[1].val[1].conversationId].messageCount = 2

\* an addMessage call on this conversation has started and neither returned
\* nor failed
AddInProgress(i) ==
  \E w \in Workers :
    /\ proc[w].op = "addMessage"
    /\ proc[w].pc \notin {"idle", "done"}
    /\ proc[w].sid = conversations[i].sessionId

\* C11: whenever no addMessage call on a conversation is in progress (each
\* has returned or failed, a Cache or Store error partway through included),
\* its messageCount is the number of Message records stored for it.
C11_CountMatchesStore ==
  \A i \in DOMAIN conversations :
    ~AddInProgress(i) =>
      conversations[i].messageCount = Cardinality(FindMessages(i))

\* C12: after createConversation and N addMessage calls on the session, one
\* after the other and all returning, messageCount is N and
\* getMessages(page 1, limit 10) returns exactly min(N, 10) messages.
C12_SequentialCountAndPage ==
  \A w \in Workers :
    /\ Returned(w, "getMessages")
    /\ proc[w].page = 1
    /\ proc[w].limit = CacheLimit
    => \A i \in FindOneActive(proc[w].sid) :
         /\ conversations[i].messageCount = Cardinality(FindMessages(i))
         /\ Len(proc[w].val) = Min(Cardinality(FindMessages(i)), CacheLimit)

\* the messageIds of a sequence of messages
MessageIds(seq) == {seq[k].messageId : k \in DOMAIN seq}

\* C13: the recency window is coherent with the Store: getMessages(S, 1,
\* limit) with limit <= 10 returns the same set of messages as the Store path
\* would, the min(N, limit) most recent of the N messages stored for S, also
\* after the window expired and later appends repopulated it.
C13_WindowCoherentWithStore ==
  \A w \in Workers :
    Returned(w, "getMessages") /\ CachePath(proc[w].page, proc[w].limit) =>
      \A i \in FindOneActive(proc[w].sid) :
        \E sorted \in SortedDesc(FindMessages(i)) :
          MessageIds(proc[w].val) =
            MessageIds(StorePage(sorted, 1, proc[w].limit))

\* C14: no step of any operation (addMessage, deleteConversation,
\* getMessages, backupConversation, cache eviction) modifies or removes a
\* stored Message: the collection only grows and every record stays as it is,
\* the records of a soft-deleted conversation included.
C14_MessagesImmutable ==
  [][/\ Len(messages') >= Len(messages)
     /\ \A i \in DOMAIN messages : messages'[i] = messages[i]]_vars

\* C14 witness: deleteConversation returned, the conversation is inactive, its
\* window is evicted, and its Messages are in the Store
C14_Witness ==
  \E w \in Workers :
    /\ Returned(w, "deleteConversation")
    /\ Deleted(proc[w].sid)
    /\ msgCache[proc[w].sid] = <<>>
    /\ \E i \in DOMAIN messages : messages[i].sessionId = proc[w].sid

\* C15: backupConversation(S) on an active conversation snapshots the Store,
\* not the recency window: the snapshot's messages are the min(N, 1000) most
\* recent Messages stored for the conversation, oldest first; on an S with no
\* active conversation the call ends with NotFound and never reaches the
\* Object Storage put.
C15_BackupFromStore ==
  \A w \in Workers :
    proc[w].op = "backupConversation" =>
      /\ Returned(w, "backupConversation") /\ Active(proc[w].sid) =>
           \E sorted \in SortedDesc(FindMessages(proc[w].val[1].conversation.id)) :
             proc[w].val[1].messages = StorePage(sorted, 1, BackupLimit)
      /\ ~Active(proc[w].sid) =>
           /\ proc[w].pc # "bk_put"
           /\ proc[w].pc = "done" => proc[w].status = "NotFound"

\* the stored Messages of the conversation created after the one at position k
Newer(k) ==
  {j \in FindMessages(messages[k].conversationId) :
     messages[j].createdAt > messages[k].createdAt}

\* the other stored Messages of the conversation created no earlier
NotOlder(k) ==
  {j \in FindMessages(messages[k].conversationId) \ {k} :
     messages[j].createdAt >= messages[k].createdAt}

\* C16: a getMessages(S, page, limit) call answered by the Store returns,
\* oldest first, the messages whose recency rank r by createdAt satisfies
\* (page-1)*limit < r <= page*limit; so with no append in between, the next
\* page shares no message with it and the pages together cover the Store.
C16_StorePagesPartition ==
  [][\A w \in Workers :
       /\ proc[w].pc = "gm_find"
       /\ proc[w].op = "getMessages"
       /\ proc'[w].pc = "done"
       => /\ Chronological(proc'[w].val)
          /\ \A k \in DOMAIN messages :
               (\E n \in DOMAIN proc'[w].val : proc'[w].val[n] = messages[k]) =>
                 /\ Cardinality(Newer(k)) < proc[w].page * proc[w].limit
                 /\ Cardinality(NotOlder(k)) >= (proc[w].page - 1) * proc[w].limit
          /\ \A r \in GetMessages(proc[w].sid, proc[w].page + 1, proc[w].limit) :
               /\ MessageIds(proc'[w].val) \cap MessageIds(r) = {}
               /\ Cardinality(FindMessages(proc[w].conv[1].id))
                    <= (proc[w].page + 1) * proc[w].limit
                  /\ proc[w].page = 1
                  => MessageIds(proc'[w].val) \cup MessageIds(r) =
                       {messages[k].messageId :
                          k \in FindMessages(proc[w].conv[1].id)}]_vars

\* the messageIds in the recency window of a session
WindowIds(sessionId) == MessageIds(msgCache[sessionId])

\* the objects uploaded for files 1..n of a message
Uploaded(messageId, n) == \A f \in 1..n : <<messageId, f>> \in objects

\* a step of worker w inside an addMessage call, taken at position pc
AddStep(w, pc) ==
  proc[w].op = "addMessage" /\ proc[w].pc = pc /\ proc'[w] # proc[w]

\* C17: one addMessage call resolves the conversation, uploads every file,
\* writes the Message, pushes it to the window and increments messageCount, in
\* this order.  A failed upload leaves no Message, the window and messageCount
\* as they were; a failed Message write after the uploads leaves the uploaded
\* objects in place and the window and messageCount as they were.
C17_UploadBeforeWrite ==
  /\ [][\A w \in Workers :
          /\ objects \subseteq objects'
          /\ AddStep(w, "am_upload") =>
               /\ ~Stored(proc[w].md[1].messageId)
               /\ UNCHANGED <<store, msgCache>>
          /\ AddStep(w, "am_save") =>
               /\ Uploaded(proc[w].md[1].messageId, proc[w].files)
               /\ proc[w].md[1].messageId \notin WindowIds(proc[w].sid)
               /\ UNCHANGED <<conversations, msgCache, objects>>
          /\ AddStep(w, "am_lpush") =>
               /\ Stored(proc[w].md[1].messageId)
               /\ UNCHANGED <<store, objects>>
          /\ AddStep(w, "am_inc") /\ conversations' # conversations =>
               /\ Stored(proc[w].md[1].messageId)
               /\ proc[w].md[1].messageId \in WindowIds(proc[w].sid)
               /\ UNCHANGED <<messages, msgCache, objects>>
          /\ proc[w].op = "addMessage" /\ proc'[w] # proc[w] =>
               /\ messages' # messages => proc[w].pc = "am_save"
               /\ msgCache' # msgCache => proc[w].pc \in {"am_lpush", "am_ltrim"}
               /\ conversations' # conversations => proc[w].pc = "am_inc"
               /\ objects' # objects => proc[w].pc = "am_upload"]_vars
  /\ [](\A w \in Workers :
          proc[w].pc = "done" /\ proc[w].op = "addMessage" =>
            /\ proc[w].status = "UploadError" =>
                 /\ ~Stored(proc[w].md[1].messageId)
                 /\ proc[w].md[1].messageId \notin WindowIds(proc[w].sid)
            /\ /\ proc[w].status = "StoreError"
               /\ proc[w].md # <<>>
               /\ ~Stored(proc[w].md[1].messageId)
               => /\ Uploaded(proc[w].md[1].messageId, proc[w].md[1].files)
                  /\ proc[w].md[1].messageId \notin WindowIds(proc[w].sid))

\* C17 witness: the Message write failed after the call uploaded its file:
\* the object is in Object Storage, no Message is stored for the call
C17_Witness ==
  \E w \in Workers :
    /\ proc[w].pc = "done"
    /\ proc[w].op = "addMessage"
    /\ proc[w].status = "StoreError"
    /\ proc[w].md # <<>>
    /\ proc[w].md[1].files > 0
    /\ ~Stored(proc[w].md[1].messageId)
    /\ <<proc[w].md[1].messageId, 1>> \in objects

\* the position in the Message collection of the Message with this messageId
PositionOf(messageId) ==
  CHOOSE i \in DOMAIN messages : messages[i].messageId = messageId

\* no addMessage call is between its start and its end
NoAddInProgress ==
  \A w \in Workers :
    proc[w].op = "addMessage" => proc[w].pc \in {"idle", "done"}

\* C18: once concurrent addMessage calls on a session have all completed, any
\* two messages of the recency window (head = most recent) stand in their
\* chronological order: the one nearer the head has the later createdAt, or
\* the same createdAt and the later Store write.
C18_WindowOrderAgreesWithStore ==
  NoAddInProgress =>
    \A s \in SessionIds : \A a, b \in DOMAIN msgCache[s] :
      a < b =>
        \/ CreatedAtOf(msgCache[s][a].messageId)
             > CreatedAtOf(msgCache[s][b].messageId)
        \/ /\ CreatedAtOf(msgCache[s][a].messageId)
                = CreatedAtOf(msgCache[s][b].messageId)
           /\ PositionOf(msgCache[s][a].messageId)
                > PositionOf(msgCache[s][b].messageId)

\* C19: a conversation's lastActivity never decreases: under any interleaving
\* of concurrent addMessage calls every Store update of lastActivity writes a
\* value greater than or equal to the one it replaces.
C19_LastActivityMonotonic ==
  [][\A i \in DOMAIN conversations :
       conversations'[i].lastActivity >= conversations[i].lastActivity]_vars
=============================================================================
